---- MODULE Spec2Model ----
(***************************************************************************)
(* A model of the CML Transcriptie Tool (src/transcribe.py): the run of    *)
(* main(), the phases of run_transcription, the redirection of sys.stdout  *)
(* to a ProgressCapture, and what reaches the terminal.                    *)
(*                                                                         *)
(* Text is a sequence of one-character strings.  A percentage is an exact  *)
(* rational [n, d] (n/d percent); the Python floats of the source are      *)
(* modelled by the rationals they approximate.  A terminal is the sequence *)
(* of what was written to the real output stream from the file selection  *)
(* on: a rendered bar (label, the bar drawn, the percentage formatted), a  *)
(* line break, or a message.  MaxWrites bounds the chunks and progress     *)
(* lines the sub-tasks of one run write.                                   *)
(***************************************************************************)
EXTENDS Integers, Sequences, FiniteSets, TLC

VARIABLES
    pc,             \* where main() is (the step that runs next)
    file_path,      \* "none" | "audio" | "video": the selected source file
    duration_str,   \* main()'s duration_str (text), <<>> before it is set
    estimate,       \* TRUE once estimate_processing_time has been called
    temp_dir,       \* "none" | "exists" | "removed": the workspace
    rmtree_calls,   \* number of shutil.rmtree(temp_dir) calls
    audio_path,     \* the path of the audio handed on (NoPath before the try block)
    conv_duration,  \* convert_video_to_audio's probed duration
    sys_stdout,     \* "terminal" | "progress" | "align_progress"
    progress,       \* the ProgressCapture of phase 3 (NoCapture before)
    align_progress, \* the ProgressCapture of phase 4 (NoCapture before)
    terminal,       \* what was written to the real output stream
    traceback,      \* TRUE once traceback.print_exc() has run
    exc,            \* the exception in flight or handled: "none" | "Exception" | "KeyboardInterrupt"
    exit_status,    \* "running" | "returned" | "uncaught"
    phases,         \* the phases started so far, in order
    writes,         \* chunks or lines the running sub-task has written
    last_local,     \* last local progress the running sub-task reported
    env_ok,         \* the sub-tasks so far reported non-decreasing progress in [0,100]
    result,         \* what model.transcribe returned: [segments, language]
    segments,       \* what run_transcription returned to main()
    detected_lang,  \* the language run_transcription returned to main()
    language_code,  \* the requested language
    align_outcome,  \* "none" | "ok" | "failed"
    fatal,          \* the phase whose failure ended the run, or "none"
    interrupted,    \* the phase a keyboard interrupt was raised in, or "none"
    existing,       \* indexes i of the taken output paths (0: <stem>.docx, i: <stem>_i.docx)
    export_calls,   \* the calls of export_to_word: [segments, path]
    documents,      \* indexes of the documents written by this run
    feed,           \* chunks a wrapped component has yet to write (ProgressCapture harness)
    file_stem,      \* Path(file_path).stem of the selected file, "" before
    duration,       \* main()'s duration: what get_duration_ffprobe(file_path) returned
    file_size,      \* bytes os.path.getsize gave compress_audio_if_needed, 0 - 1 before
    ffmpeg_calls,   \* the ffmpeg runs that write a file: [tool, input, output]
    align_language  \* the language_code given to whisperx.load_align_model, "" before

vars == <<pc, file_path, duration_str, estimate, temp_dir, rmtree_calls, audio_path,
          conv_duration, sys_stdout, progress, align_progress, terminal, traceback,
          exc, exit_status, phases, writes, last_local, env_ok, result, segments,
          detected_lang, language_code, align_outcome, fatal, interrupted,
          existing, export_calls, documents, feed, file_stem, duration, file_size,
          ffmpeg_calls, align_language>>

----------------------------------------------------------------------------
(* Bounds of the model *)

\* chunks the wrapped components write and lines ffmpeg emits during one run
MaxWrites == 1
\* chunks fed to a ProgressCapture on its own
MaxFeed == 2
\* length of a chunk of the ProgressCapture harness
MaxLen == 4
\* taken output paths: <stem>.docx, <stem>_1.docx, ... up to this index
MaxExisting == 1
\* whole seconds given to format_timestamp on its own
MaxSeconds == 7325

----------------------------------------------------------------------------
(* Rationals and text *)

RECURSIVE GCD(_, _)
GCD(a, b) == IF b = 0 THEN a ELSE GCD(b, a % b)

\* the rational n/d (n >= 0, d > 0) in lowest terms: equal values are equal records
Rat(n, d) == [n |-> n \div GCD(n, d), d |-> d \div GCD(n, d)]

RatLeq(a, b) == a.n * b.d <= b.n * a.d

Digits == {"0", "1", "2", "3", "4", "5", "6", "7", "8", "9"}

DigitValue(c) ==
    CASE c = "0" -> 0 [] c = "1" -> 1 [] c = "2" -> 2 [] c = "3" -> 3 [] c = "4" -> 4
      [] c = "5" -> 5 [] c = "6" -> 6 [] c = "7" -> 7 [] c = "8" -> 8 [] c = "9" -> 9

DigitChar(v) ==
    CASE v = 0 -> "0" [] v = 1 -> "1" [] v = 2 -> "2" [] v = 3 -> "3" [] v = 4 -> "4"
      [] v = 5 -> "5" [] v = 6 -> "6" [] v = 7 -> "7" [] v = 8 -> "8" [] v = 9 -> "9"

RECURSIVE Pow10(_)
Pow10(k) == IF k = 0 THEN 1 ELSE 10 * Pow10(k - 1)

\* the digits of a text, read as a decimal number (other characters skipped)
RECURSIVE DigitsToInt(_)
DigitsToInt(s) ==
    IF s = <<>> THEN 0
    ELSE LET c == s[Len(s)]
             rest == DigitsToInt(SubSeq(s, 1, Len(s) - 1))
         IN IF c \in Digits THEN 10 * rest + DigitValue(c) ELSE rest

\* float(text) of a text matched by \d+\.?\d*
Float(s) ==
    LET dots == {k \in 1..Len(s) : s[k] = "."}
        frac == IF dots = {} THEN 0 ELSE Len(s) - (CHOOSE k \in dots : TRUE)
    IN Rat(DigitsToInt(s), Pow10(frac))

\* re.search(r'(\d+\.?\d*)%', text): <<i, j>> with text[i..j-1] the group and
\* text[j] the "%", for the leftmost i; <<>> when nothing matches.  From a
\* start i the group can only end at the first "%" after i, and it matches
\* when every character before that "%" is a digit or a dot, the first one is
\* a digit and there is at most one dot.
MatchAt(text, i, j) ==
    /\ i < j
    /\ text[j] = "%"
    /\ text[i] \in Digits
    /\ \A k \in i..(j - 1) : text[k] \in Digits \cup {"."}
    /\ Cardinality({k \in i..(j - 1) : text[k] = "."}) <= 1

re_search(text) ==
    LET starts == {i \in 1..Len(text) : \E j \in 1..Len(text) : MatchAt(text, i, j)}
    IN IF starts = {} THEN <<>>
       ELSE LET i == CHOOSE x \in starts : \A y \in starts : x <= y
                j == CHOOSE y \in 1..Len(text) : MatchAt(text, i, y)
            IN <<i, j>>

----------------------------------------------------------------------------
(* The terminal *)

NoBar == [eq |-> 0, cursor |-> FALSE]

BarEvent(label, bar, pct) == [kind |-> "bar", label |-> label, bar |-> bar, pct |-> pct]

NewlineEvent == [kind |-> "nl", label |-> "", bar |-> NoBar, pct |-> Rat(0, 1)]

TextEvent(id) == [kind |-> "text", label |-> id, bar |-> NoBar, pct |-> Rat(0, 1)]

\* the percentages rendered so far, in the order they were rendered
RECURSIVE Rendered(_)
Rendered(term) ==
    IF term = <<>> THEN <<>>
    ELSE LET rest == Rendered(SubSeq(term, 1, Len(term) - 1))
             ev == term[Len(term)]
         IN IF ev.kind = "bar" THEN Append(rest, ev.pct) ELSE rest

----------------------------------------------------------------------------
(* ProgressCapture and the output streams *)

bar_width == 40

NoCapture == [phase_name |-> "", phase_start |-> 0, phase_end |-> 0, original_stdout |-> "none"]

\* ProgressCapture.__init__: original_stdout is sys.stdout at construction; the
\* caller's old_stdout is read from sys.stdout on the next line and is the same stream
ProgressCapture(phase_name, phase_start_pct, phase_end_pct) ==
    [phase_name |-> phase_name, phase_start |-> phase_start_pct,
     phase_end |-> phase_end_pct, original_stdout |-> sys_stdout]

\* int(bar_width * pct / 100) and the bar drawn from it: the number of "="
\* columns and whether the ">" cursor follows them
Filled(pct) == (bar_width * pct.n) \div (100 * pct.d)

Bar(pct) ==
    IF Filled(pct) < bar_width THEN [eq |-> Filled(pct), cursor |-> TRUE]
    ELSE [eq |-> bar_width, cursor |-> FALSE]

\* the line "\r  <label>: [<bar>] <pct>%" written to the real output stream
RenderLine(label, pct, term) == Append(term, BarEvent(label, Bar(pct), pct))

\* ProgressCapture._render_bar: writes to self.original_stdout, which is the
\* real output stream whenever a ProgressCapture is constructed (OriginalIsTerminal)
RenderBar(cap, pct, term) == RenderLine(cap.phase_name, pct, term)

\* the rescaling without the division of the local percentage by 100
OverallPctUnscaled(cap, local) ==
    Rat(cap.phase_start * local.d + local.n * (cap.phase_end - cap.phase_start), local.d)

\* overall_pct = phase_start + (local_pct / 100.0) * (phase_end - phase_start)
OverallPct(cap, local) ==
    Rat(cap.phase_start * 100 * local.d + local.n * (cap.phase_end - cap.phase_start),
        100 * local.d)

\* the local percentage a chunk carries for ProgressCapture.write: <<>> or <<p>>
LocalPct(chars) ==
    LET m == re_search(chars)
    IN IF m = <<>> THEN <<>> ELSE <<Float(SubSeq(chars, m[1], m[2] - 1))>>

\* ProgressCapture.write(text)
PCWrite(cap, chars, term) ==
    LET local == LocalPct(chars)
    IN IF local = <<>> THEN term ELSE RenderBar(cap, OverallPct(cap, local[1]), term)

\* a finish() that redraws the last percentage instead of phase_end
PCFinishAtLast(cap, term) ==
    IF Rendered(term) = <<>> THEN term
    ELSE Append(RenderBar(cap, Rendered(term)[Len(Rendered(term))], term), NewlineEvent)

\* ProgressCapture.finish()
PCFinish(cap, term) == Append(RenderBar(cap, Rat(cap.phase_end, 1), term), NewlineEvent)

Capture(stream) == IF stream = "progress" THEN progress ELSE align_progress

\* sys.stdout.write(text) for the stream installed as sys.stdout
StreamWrite(stream, text, term) ==
    IF stream = "terminal" THEN Append(term, TextEvent(text.id))
    ELSE PCWrite(Capture(stream), text.chars, term)

\* print(text): the text, then the line end, both through sys.stdout.write
print_to(stream, text, term) ==
    LET LineEnd == [id |-> "", chars |-> <<"\n">>]
    IN IF stream = "terminal" THEN Append(Append(term, TextEvent(text.id)), NewlineEvent)
       ELSE StreamWrite(stream, LineEnd, StreamWrite(stream, text, term))

\* print_progress_bar(label, pct), called only while sys.stdout is the real stream
print_progress_bar(label, pct, term) == RenderLine(label, pct, term)

\* finish_progress_bar()
finish_progress_bar(term) == Append(term, NewlineEvent)

----------------------------------------------------------------------------
(* Texts *)

ChunkHalf ==
    <<"P", "r", "o", "g", "r", "e", "s", "s", ":", " ", "5", "0", ".", "0", "0", "%",
      ".", ".", ".">>

ChunkFull ==
    <<"P", "r", "o", "g", "r", "e", "s", "s", ":", " ", "1", "0", "0", ".", "0", "0",
      "%", ".", ".", ".">>

ChunkOver ==
    <<"P", "r", "o", "g", "r", "e", "s", "s", ":", " ", "1", "5", "0", ".", "0", "0",
      "%", ".", ".", ".">>

ChunkPlain ==
    <<"T", "r", "a", "n", "s", "c", "r", "i", "p", "t", ":", " ", "o", "k">>

CancelChars ==
    <<"\n", "\n", " ", " ", "A", "f", "g", "e", "b", "r", "o", "k", "e", "n", " ", "d",
      "o", "o", "r", " ", "g", "e", "b", "r", "u", "i", "k", "e", "r", ".">>

NoFileChars ==
    <<"\n", " ", " ", "G", "e", "e", "n", " ", "b", "e", "s", "t", "a", "n", "d", " ",
      "g", "e", "s", "e", "l", "e", "c", "t", "e", "e", "r", "d", ".", " ", "P", "r",
      "o", "g", "r", "a", "m", "m", "a", " ", "w", "o", "r", "d", "t", " ", "a", "f",
      "g", "e", "s", "l", "o", "t", "e", "n", ".">>

FoutChars ==
    <<"\n", "\n", " ", " ", "F", "O", "U", "T", ":", " ">>

WarningChars ==
    <<"\n", " ", " ", "W", "a", "a", "r", "s", "c", "h", "u", "w", "i", "n", "g", ":",
      " ", "U", "i", "t", "l", "i", "j", "n", "i", "n", "g", " ", "m", "i", "s", "l",
      "u", "k", "t", " ", "(">>

StartedChars ==
    <<"V", "e", "r", "w", "e", "r", "k", "i", "n", "g", " ", "g", "e", "s", "t", "a",
      "r", "t", ".", ".", ".">>

VideoChars ==
    <<" ", " ", "V", "i", "d", "e", "o", " ", "g", "e", "d", "e", "t", "e", "c", "t",
      "e", "e", "r", "d", ",", " ", "a", "u", "d", "i", "o", " ", "e", "x", "t", "r",
      "a", "h", "e", "r", "e", "n", ".", ".", ".">>

LargeChars ==
    <<" ", " ", "G", "r", "o", "o", "t", " ", "b", "e", "s", "t", "a", "n", "d", " ",
      "(">>

CompressedChars ==
    <<" ", " ", "G", "e", "c", "o", "m", "p", "r", "i", "m", "e", "e", "r", "d", ":",
      " ">>

TaalChars ==
    <<" ", " ", "T", "a", "a", "l", ":", " ">>

DoneChars ==
    <<" ", " ", "V", "O", "L", "T", "O", "O", "I", "D", "!">>

\* the fixed text of each message main() and its callees print (a formatted
\* message is cut at its first placeholder)
Msg(id) ==
    [id |-> id,
     chars |-> CASE id = "cancel" -> CancelChars
                 [] id = "no_file" -> NoFileChars
                 [] id = "fout" -> FoutChars
                 [] id = "warning" -> WarningChars
                 [] id = "started" -> StartedChars
                 [] id = "video" -> VideoChars
                 [] id = "large" -> LargeChars
                 [] id = "compressed" -> CompressedChars
                 [] id = "taal" -> TaalChars
                 [] id = "done" -> DoneChars]

\* what a wrapped component writes to sys.stdout during a phase
ChunkSamples == {ChunkHalf, ChunkFull, ChunkOver, ChunkPlain}

Chunk(chars) == [id |-> "chunk", chars |-> chars]

Alphabet == {"0", "1", "5", ".", "%", "x"}

RECURSIVE SeqsUpTo(_, _)
SeqsUpTo(S, n) ==
    IF n = 0 THEN {<<>>}
    ELSE LET shorter == SeqsUpTo(S, n - 1)
         IN shorter \cup {Append(s, x) : s \in {t \in shorter : Len(t) = n - 1}, x \in S}

----------------------------------------------------------------------------
(* Values the environment supplies *)

None == [some |-> FALSE, val |-> 0]

Some(v) == [some |-> TRUE, val |-> v]

\* Python's truth value of a probed duration: not None and not zero
Truthy(d) == d.some /\ d.val # 0

\* get_duration_ffprobe: the float ffprobe printed (whole seconds here), or
\* None when the tool failed or printed no number
ProbeResults == {None, Some(0), Some(0 - 5), Some(10)}

\* os.path.getsize in bytes, around the threshold of compress_audio_if_needed
SizeSamples == {500 * 1024 * 1024 - 1, 500 * 1024 * 1024, 500 * 1024 * 1024 + 1}

\* a file path: the directory ("user": where the source lies, "temp": the
\* workspace), the stem and the suffix
Path(dir, stem, ext) == [dir |-> dir, stem |-> stem, ext |-> ext]

NoPath == Path("", "", "")

\* the files a user selects: the kind (by the suffix, is_video) and the stem
SourceSamples ==
    {[kind |-> "audio", stem |-> "talk"], [kind |-> "video", stem |-> "talk"],
     [kind |-> "video", stem |-> "compressed_audio"]}

\* the selected file: a video (SUPPORTED_VIDEO suffix) or an audio file
SourcePath(kind, stem) == Path("user", stem, IF kind = "video" THEN "mp4" ELSE "mp3")

\* os.path.join(temp_dir, Path(video_path).stem + '.wav')
ConvertOutput(video_path) == Path("temp", video_path.stem, "wav")

\* os.path.join(temp_dir, 'compressed_audio.wav')
CompressOutput == Path("temp", "compressed_audio", "wav")

\* an ffmpeg run that reads input and writes output
FfmpegCall(tool, input, output) == [tool |-> tool, input |-> input, output |-> output]

\* the threshold of compress_audio_if_needed, in bytes: file_size_mb < 500
\* with file_size_mb = size / (1024 * 1024)
UnderThreshold(size) == size < 500 * 1024 * 1024

\* a line of ffmpeg's progress stream: a time=HH:MM:SS.ff marker (as seconds) or none
NoMarker == [marker |-> FALSE, current |-> 0]

Marker(sec) == [marker |-> TRUE, current |-> sec]

FfmpegLines == {NoMarker, Marker(5), Marker(20)}

Segment(start, end, text) == [start |-> start, end |-> end, text |-> text]

ThreeSegments == <<Segment(0, 4, "een"), Segment(4, 8, ""), Segment(3725, 3730, "drie")>>

\* what model.transcribe returns: the segments, and a language unless the
\* result carries none
ResultSamples ==
    {[segments |-> ThreeSegments, has_language |-> TRUE, language |-> "en"],
     [segments |-> ThreeSegments, has_language |-> FALSE, language |-> ""],
     [segments |-> <<>>, has_language |-> TRUE, language |-> "nl"]}

NoResult == [segments |-> <<>>, has_language |-> FALSE, language |-> ""]

\* a detected language that ignores what the inference result reports
DetectedLanguageRequested(r, language) == language

\* result.get("language", language)
DetectedLanguage(r, language) == IF r.has_language THEN r.language ELSE language

\* what whisperx.align returns for these segments: the boundaries narrowed
\* to the words
Aligned(segs) ==
    [i \in 1..Len(segs) |-> Segment(segs[i].start + 1, segs[i].end - 1, segs[i].text)]

LanguageSamples == {"nl"}

----------------------------------------------------------------------------
(* Utilities *)

RECURSIVE Decimal(_)
Decimal(v) == IF v < 10 THEN <<DigitChar(v)>> ELSE Append(Decimal(v \div 10), DigitChar(v % 10))

\* f"{v:02d}" for v >= 0
Pad2(v) == IF v < 10 THEN <<"0", DigitChar(v)>> ELSE Decimal(v)

\* a format_timestamp whose minutes are not taken within the hour
format_timestamp_total_minutes(seconds) ==
    LET h == seconds \div 3600
        m == seconds \div 60
        s == seconds % 60
    IN IF h > 0 THEN Pad2(h) \o <<":">> \o Pad2(m) \o <<":">> \o Pad2(s)
       ELSE Pad2(m) \o <<":">> \o Pad2(s)

\* format_timestamp(seconds): // and % round to minus infinity, as \div and % do
format_timestamp(seconds) ==
    LET h == seconds \div 3600
        m == (seconds % 3600) \div 60
        s == seconds % 60
    IN IF h > 0 THEN Pad2(h) \o <<":">> \o Pad2(m) \o <<":">> \o Pad2(s)
       ELSE Pad2(m) \o <<":">> \o Pad2(s)

Onbekend == <<"O", "n", "b", "e", "k", "e", "n", "d">>

\* the percentage range each phase renders into
PhaseRange(phase) ==
    CASE phase = "video" -> <<5, 15>>
      [] phase = "model_load" -> <<0, 10>>
      [] phase = "audio_load" -> <<10, 15>>
      [] phase = "inference" -> <<15, 70>>
      [] phase = "alignment" -> <<70, 90>>
      [] phase = "export" -> <<90, 100>>

PhaseStart(phase) == Rat(PhaseRange(phase)[1], 1)

PhaseEnd(phase) == Rat(PhaseRange(phase)[2], 1)

Min(a, b) == IF a <= b THEN a ELSE b

\* convert_video_to_audio: pct = min(current / duration * 100, 100) and
\* overall = 5.0 + (pct / 100.0) * 10.0, for a duration total > 0
VideoOverall(current, total) ==
    LET pct == Rat(Min(current * 100, 100 * total), total)
        s == PhaseRange("video")[1]
        e == PhaseRange("video")[2]
    IN Rat(s * 100 * pct.d + pct.n * (e - s), 100 * pct.d)

\* the local progress a chunk reports, against the last one reported
ReportsInOrder(last, chars) ==
    LET local == LocalPct(chars)
    IN local = <<>> \/ (RatLeq(last, local[1]) /\ RatLeq(local[1], Rat(100, 1)))

NextLocal(last, chars) == IF LocalPct(chars) = <<>> THEN last ELSE LocalPct(chars)[1]

----------------------------------------------------------------------------
(* main(): from the file selection to the start of the pipeline *)

Init ==
    /\ pc = "select"
    /\ file_path = "none" /\ duration_str = <<>> /\ estimate = FALSE
    /\ temp_dir = "none" /\ rmtree_calls = 0 /\ audio_path = NoPath
    /\ conv_duration = None
    /\ sys_stdout = "terminal" /\ progress = NoCapture /\ align_progress = NoCapture
    /\ terminal = <<>> /\ traceback = FALSE /\ exc = "none"
    /\ exit_status = "running" /\ phases = <<>> /\ writes = 0
    /\ last_local = Rat(0, 1) /\ env_ok = TRUE
    /\ result = NoResult /\ segments = <<>>
    /\ detected_lang = "" /\ language_code \in LanguageSamples /\ align_outcome = "none"
    /\ fatal = "none" /\ interrupted = "none" /\ existing = {}
    /\ export_calls = <<>> /\ documents = {}
    /\ feed = <<>>
    /\ file_stem = "" /\ duration = None /\ file_size = 0 - 1
    /\ ffmpeg_calls = <<>> /\ align_language = ""

\* select_file_dialog / select_file_manual gave a file
SelectFile ==
    /\ pc = "select"
    /\ \E source \in SourceSamples :
          file_path' = source.kind /\ file_stem' = source.stem
    /\ pc' = "stat"
    /\ UNCHANGED <<duration, file_size, ffmpeg_calls, align_language,
              duration_str, estimate, temp_dir, rmtree_calls, audio_path,
              conv_duration, sys_stdout, progress, align_progress, terminal,
              traceback, exc, exit_status, phases, writes, last_local, env_ok,
              result, segments, detected_lang, language_code, align_outcome, fatal,
              interrupted, existing, export_calls, documents, feed>>

\* no file was selected: main() prints that and returns
SelectNothing ==
    /\ pc = "select"
    /\ terminal' = print_to(sys_stdout, Msg("no_file"), terminal)
    /\ exit_status' = "returned"
    /\ pc' = "done"
    /\ UNCHANGED <<file_stem, duration, file_size, ffmpeg_calls, align_language,
              file_path, duration_str, estimate, temp_dir, rmtree_calls,
              audio_path, conv_duration, sys_stdout, progress, align_progress,
              traceback, exc, phases, writes, last_local, env_ok, result, segments,
              detected_lang, language_code, align_outcome, fatal, interrupted,
              existing, export_calls, documents, feed>>

\* os.path.getsize(file_path), outside the try block
StatFile ==
    /\ pc = "stat"
    /\ pc' = "probe"
    /\ UNCHANGED <<file_stem, duration, file_size, ffmpeg_calls, align_language,
              file_path, duration_str, estimate, temp_dir, rmtree_calls,
              audio_path, conv_duration, sys_stdout, progress, align_progress,
              terminal, traceback, exc, exit_status, phases, writes, last_local,
              env_ok, result, segments, detected_lang, language_code,
              align_outcome, fatal, interrupted, existing, export_calls, documents,
              feed>>

\* os.path.getsize(file_path) raises OSError: nothing catches it
StatFileFails ==
    /\ pc = "stat"
    /\ exc' = "Exception"
    /\ exit_status' = "uncaught"
    /\ pc' = "done"
    /\ UNCHANGED <<file_stem, duration, file_size, ffmpeg_calls, align_language,
              file_path, duration_str, estimate, temp_dir, rmtree_calls,
              audio_path, conv_duration, sys_stdout, progress, align_progress,
              terminal, traceback, phases, writes, last_local, env_ok, result,
              segments, detected_lang, language_code, align_outcome, fatal,
              interrupted, existing, export_calls, documents, feed>>

\* duration = get_duration_ffprobe(file_path) and the duration string
ProbeSource ==
    /\ pc = "probe"
    /\ duration' \in ProbeResults
    /\ IF Truthy(duration')
       THEN duration_str' = format_timestamp(duration'.val) /\ estimate' = TRUE
       ELSE duration_str' = Onbekend /\ estimate' = FALSE
    /\ pc' = "mkdtemp"
    /\ UNCHANGED <<file_stem, file_size, ffmpeg_calls, align_language,
              file_path, temp_dir, rmtree_calls, audio_path, conv_duration,
              sys_stdout, progress, align_progress, terminal, traceback, exc,
              exit_status, phases, writes, last_local, env_ok, result, segments,
              detected_lang, language_code, align_outcome, fatal, interrupted,
              existing, export_calls, documents, feed>>

\* temp_dir = tempfile.mkdtemp(...)
MakeTemp ==
    /\ pc = "mkdtemp"
    /\ temp_dir' = "exists"
    /\ pc' = "begin"
    /\ UNCHANGED <<file_stem, duration, file_size, ffmpeg_calls, align_language,
              file_path, duration_str, estimate, rmtree_calls, audio_path,
              conv_duration, sys_stdout, progress, align_progress, terminal,
              traceback, exc, exit_status, phases, writes, last_local, env_ok,
              result, segments, detected_lang, language_code, align_outcome, fatal,
              interrupted, existing, export_calls, documents, feed>>

\* the try block begins with an audio source: no conversion
BeginAudio ==
    /\ pc = "begin"
    /\ file_path = "audio"
    /\ terminal' = print_to(sys_stdout, Msg("started"), terminal)
    /\ audio_path' = SourcePath(file_path, file_stem)
    /\ pc' = "compress"
    /\ UNCHANGED <<file_stem, duration, file_size, ffmpeg_calls, align_language,
              file_path, duration_str, estimate, temp_dir, rmtree_calls,
              conv_duration, sys_stdout, progress, align_progress, traceback, exc,
              exit_status, phases, writes, last_local, env_ok, result, segments,
              detected_lang, language_code, align_outcome, fatal, interrupted,
              existing, export_calls, documents, feed>>

\* the try block begins with a video source: convert_video_to_audio probes
\* the duration and starts ffmpeg
BeginVideo ==
    /\ pc = "begin"
    /\ file_path = "video"
    /\ terminal' = print_to(sys_stdout, Msg("video"),
                            print_to(sys_stdout, Msg("started"), terminal))
    /\ audio_path' = SourcePath(file_path, file_stem)
    /\ conv_duration' \in ProbeResults
    /\ ffmpeg_calls' = Append(ffmpeg_calls,
           FfmpegCall("convert", SourcePath(file_path, file_stem),
                      ConvertOutput(SourcePath(file_path, file_stem))))
    /\ phases' = Append(phases, "video")
    /\ last_local' = Rat(0, 1)
    /\ pc' = "ffmpeg"
    /\ UNCHANGED <<file_stem, duration, file_size, align_language,
              file_path, duration_str, estimate, temp_dir, rmtree_calls,
              sys_stdout, progress, align_progress, traceback, exc, exit_status,
              writes, env_ok, result, segments, detected_lang, language_code,
              align_outcome, fatal, interrupted, existing, export_calls, documents,
              feed>>

\* the loop without the guard on the duration: current / duration raises
\* for None and for 0, and a negative duration renders a negative percentage
ConvertLineUnguarded ==
    /\ pc = "ffmpeg"
    /\ writes < MaxWrites
    /\ \E line \in FfmpegLines :
          /\ IF line.marker /\ ~(conv_duration.some /\ conv_duration.val # 0)
             THEN /\ terminal' = terminal
                  /\ exc' = "Exception" /\ fatal' = "video" /\ pc' = "except"
             ELSE /\ terminal' =
                        IF ~line.marker THEN terminal
                        ELSE IF conv_duration.val > 0
                        THEN print_progress_bar("Video conversie",
                                 VideoOverall(line.current, conv_duration.val), terminal)
                        ELSE print_progress_bar("Video conversie",
                                 Rat(0 - (5 * conv_duration.val + 10 * line.current),
                                     0 - conv_duration.val), terminal)
                  /\ exc' = exc /\ fatal' = fatal /\ pc' = pc
          /\ env_ok' = (env_ok /\ (line.marker =>
                            /\ RatLeq(last_local, Rat(line.current, 1))
                            /\ (conv_duration.some /\ conv_duration.val > 0
                                   => line.current <= conv_duration.val)))
          /\ last_local' = IF line.marker THEN Rat(line.current, 1) ELSE last_local
    /\ writes' = writes + 1
    /\ UNCHANGED <<file_stem, duration, file_size, ffmpeg_calls, align_language,
              file_path, duration_str, estimate, temp_dir, rmtree_calls,
              audio_path, conv_duration, sys_stdout, progress, align_progress,
              traceback, exit_status, phases, result, segments, detected_lang,
              language_code, align_outcome, interrupted, existing,
              export_calls, documents, feed>>

\* a line of ffmpeg's progress stream is read
ConvertLine ==
    /\ pc = "ffmpeg"
    /\ writes < MaxWrites
    /\ \E line \in FfmpegLines :
          /\ terminal' =
                IF line.marker /\ Truthy(conv_duration) /\ conv_duration.val > 0
                THEN print_progress_bar("Video conversie",
                         VideoOverall(line.current, conv_duration.val), terminal)
                ELSE terminal
          /\ env_ok' = (env_ok /\ (line.marker =>
                            /\ RatLeq(last_local, Rat(line.current, 1))
                            /\ (conv_duration.some /\ conv_duration.val > 0
                                   => line.current <= conv_duration.val)))
          /\ last_local' = IF line.marker THEN Rat(line.current, 1) ELSE last_local
    /\ writes' = writes + 1
    /\ UNCHANGED <<file_stem, duration, file_size, ffmpeg_calls, align_language,
              pc, file_path, duration_str, estimate, temp_dir, rmtree_calls,
              audio_path, conv_duration, sys_stdout, progress, align_progress,
              traceback, exc, exit_status, phases, result, segments, detected_lang,
              language_code, align_outcome, fatal, interrupted, existing,
              export_calls, documents, feed>>

\* ffmpeg exits with status 0
ConvertEnd ==
    /\ pc = "ffmpeg"
    /\ terminal' = finish_progress_bar(
                       print_progress_bar("Video conversie", PhaseEnd("video"), terminal))
    /\ audio_path' = ConvertOutput(SourcePath(file_path, file_stem))
    /\ conv_duration' = None
    /\ last_local' = Rat(0, 1)
    /\ pc' = "compress"
    /\ UNCHANGED <<file_stem, duration, file_size, ffmpeg_calls, align_language,
              file_path, duration_str, estimate, temp_dir, rmtree_calls,
              sys_stdout, progress, align_progress, traceback, exc, exit_status,
              phases, writes, env_ok, result, segments, detected_lang,
              language_code, align_outcome, fatal, interrupted, existing,
              export_calls, documents, feed>>

\* ffmpeg exits with another status: raise Exception(...)
ConvertFails ==
    /\ pc = "ffmpeg"
    /\ exc' = "Exception"
    /\ fatal' = "video"
    /\ pc' = "except"
    /\ UNCHANGED <<file_stem, duration, file_size, ffmpeg_calls, align_language,
              file_path, duration_str, estimate, temp_dir, rmtree_calls,
              audio_path, conv_duration, sys_stdout, progress, align_progress,
              terminal, traceback, exit_status, phases, writes, last_local, env_ok,
              result, segments, detected_lang, language_code, align_outcome,
              interrupted, existing, export_calls, documents, feed>>

\* a keyboard interrupt while ffmpeg runs
ConvertInterrupted ==
    /\ pc = "ffmpeg"
    /\ exc' = "KeyboardInterrupt"
    /\ interrupted' = "video"
    /\ pc' = "except"
    /\ UNCHANGED <<file_stem, duration, file_size, ffmpeg_calls, align_language,
              file_path, duration_str, estimate, temp_dir, rmtree_calls,
              audio_path, conv_duration, sys_stdout, progress, align_progress,
              terminal, traceback, exit_status, phases, writes, last_local, env_ok,
              result, segments, detected_lang, language_code, align_outcome, fatal,
              existing, export_calls, documents, feed>>

\* compress_audio_if_needed returns: the path unchanged for a file under the
\* threshold, the re-encoded file otherwise (ffmpeg exits with an error when
\* its output is its input, so it does not return then)
Compress ==
    /\ pc = "compress"
    /\ phases' = Append(phases, "compress")
    /\ \E size \in SizeSamples :
          /\ file_size' = size
          /\ IF UnderThreshold(size)
             THEN /\ terminal' = terminal
                  /\ audio_path' = audio_path
                  /\ ffmpeg_calls' = ffmpeg_calls
             ELSE /\ audio_path # CompressOutput
                  /\ terminal' = print_to(sys_stdout, Msg("compressed"),
                                          print_to(sys_stdout, Msg("large"), terminal))
                  /\ audio_path' = CompressOutput
                  /\ ffmpeg_calls' = Append(ffmpeg_calls,
                         FfmpegCall("compress", audio_path, CompressOutput))
    /\ pc' = "probe_audio"
    /\ UNCHANGED <<file_stem, duration, align_language,
              file_path, duration_str, estimate, temp_dir, rmtree_calls,
              conv_duration, sys_stdout, progress, align_progress, traceback, exc,
              exit_status, writes, last_local, env_ok, result, segments,
              detected_lang, language_code, align_outcome, fatal, interrupted,
              existing, export_calls, documents, feed>>

\* the re-encoding run without check=True: its exit status is ignored
CompressFailsUnchecked ==
    /\ pc = "compress"
    /\ phases' = Append(phases, "compress")
    /\ terminal' = print_to(sys_stdout, Msg("compressed"),
                            print_to(sys_stdout, Msg("large"), terminal))
    /\ \E size \in {x \in SizeSamples : ~UnderThreshold(x)} : file_size' = size
    /\ ffmpeg_calls' = Append(ffmpeg_calls,
           FfmpegCall("compress", audio_path, CompressOutput))
    /\ fatal' = "compress"
    /\ audio_path' = CompressOutput
    /\ pc' = "probe_audio"
    /\ UNCHANGED <<file_stem, duration, align_language,
              file_path, duration_str, estimate, temp_dir, rmtree_calls,
              conv_duration, sys_stdout, progress, align_progress, traceback, exc,
              exit_status, writes, last_local, env_ok, result, segments,
              detected_lang, language_code, align_outcome, interrupted, existing,
              export_calls, documents, feed>>

\* os.path.getsize raises, or ffmpeg exits with a non-zero status
\* (check=True raises CalledProcessError after the "large file" message)
CompressFails ==
    /\ pc = "compress"
    /\ phases' = Append(phases, "compress")
    /\ \/ /\ terminal' = terminal
          /\ file_size' = file_size
          /\ ffmpeg_calls' = ffmpeg_calls
       \/ /\ terminal' = print_to(sys_stdout, Msg("large"), terminal)
          /\ \E size \in {x \in SizeSamples : ~UnderThreshold(x)} : file_size' = size
          /\ ffmpeg_calls' = Append(ffmpeg_calls,
                 FfmpegCall("compress", audio_path, CompressOutput))
    /\ exc' = "Exception"
    /\ fatal' = "compress"
    /\ pc' = "except"
    /\ UNCHANGED <<file_stem, duration, align_language,
              file_path, duration_str, estimate, temp_dir, rmtree_calls,
              audio_path, conv_duration, sys_stdout, progress, align_progress,
              traceback, exit_status, writes, last_local, env_ok, result, segments,
              detected_lang, language_code, align_outcome, interrupted, existing,
              export_calls, documents, feed>>

\* a keyboard interrupt while the file is re-encoded
CompressInterrupted ==
    /\ pc = "compress"
    /\ phases' = Append(phases, "compress")
    /\ terminal' = print_to(sys_stdout, Msg("large"), terminal)
    /\ \E size \in {x \in SizeSamples : ~UnderThreshold(x)} : file_size' = size
    /\ ffmpeg_calls' = Append(ffmpeg_calls,
           FfmpegCall("compress", audio_path, CompressOutput))
    /\ exc' = "KeyboardInterrupt"
    /\ interrupted' = "compress"
    /\ pc' = "except"
    /\ UNCHANGED <<file_stem, duration, align_language,
              file_path, duration_str, estimate, temp_dir, rmtree_calls,
              audio_path, conv_duration, sys_stdout, progress, align_progress,
              traceback, exit_status, writes, last_local, env_ok, result, segments,
              detected_lang, language_code, align_outcome, fatal, existing,
              export_calls, documents, feed>>

\* audio_duration = get_duration_ffprobe(audio_path)
ProbeAudio ==
    /\ pc = "probe_audio"
    /\ \E audio_duration \in ProbeResults :
          duration_str' = IF Truthy(audio_duration)
                          THEN format_timestamp(audio_duration.val)
                          ELSE duration_str
    /\ pc' = "load_model"
    /\ UNCHANGED <<file_stem, duration, file_size, ffmpeg_calls, align_language,
              file_path, estimate, temp_dir, rmtree_calls, audio_path,
              conv_duration, sys_stdout, progress, align_progress, terminal,
              traceback, exc, exit_status, phases, writes, last_local, env_ok,
              result, segments, detected_lang, language_code, align_outcome, fatal,
              interrupted, existing, export_calls, documents, feed>>

----------------------------------------------------------------------------
(* run_transcription *)

\* Phase 1: whisperx.load_model returns
LoadModel ==
    /\ pc = "load_model"
    /\ phases' = Append(phases, "model_load")
    /\ terminal' = finish_progress_bar(
                       print_progress_bar("Model laden", PhaseEnd("model_load"),
                           print_progress_bar("Model laden", PhaseStart("model_load"),
                               terminal)))
    /\ pc' = "load_audio"
    /\ UNCHANGED <<file_stem, duration, file_size, ffmpeg_calls, align_language,
              file_path, duration_str, estimate, temp_dir, rmtree_calls,
              audio_path, conv_duration, sys_stdout, progress, align_progress,
              traceback, exc, exit_status, writes, last_local, env_ok, result,
              segments, detected_lang, language_code, align_outcome, fatal,
              interrupted, existing, export_calls, documents, feed>>

\* Phase 1: whisperx.load_model raises (kind: "Exception" or "KeyboardInterrupt")
LoadModelRaises ==
    /\ pc = "load_model"
    /\ phases' = Append(phases, "model_load")
    /\ terminal' = print_progress_bar("Model laden", PhaseStart("model_load"), terminal)
    /\ \E kind \in {"Exception", "KeyboardInterrupt"} :
          /\ exc' = kind
          /\ fatal' = IF kind = "Exception" THEN "model_load" ELSE fatal
          /\ interrupted' = IF kind = "KeyboardInterrupt" THEN "model_load" ELSE interrupted
    /\ pc' = "except"
    /\ UNCHANGED <<file_stem, duration, file_size, ffmpeg_calls, align_language,
              file_path, duration_str, estimate, temp_dir, rmtree_calls,
              audio_path, conv_duration, sys_stdout, progress, align_progress,
              traceback, exit_status, writes, last_local, env_ok, result, segments,
              detected_lang, language_code, align_outcome, existing, export_calls,
              documents, feed>>

\* Phase 2: whisperx.load_audio returns
LoadAudio ==
    /\ pc = "load_audio"
    /\ phases' = Append(phases, "audio_load")
    /\ terminal' = finish_progress_bar(
                       print_progress_bar("Audio laden", PhaseEnd("audio_load"),
                           print_progress_bar("Audio laden", PhaseStart("audio_load"),
                               terminal)))
    /\ pc' = "transcribe"
    /\ UNCHANGED <<file_stem, duration, file_size, ffmpeg_calls, align_language,
              file_path, duration_str, estimate, temp_dir, rmtree_calls,
              audio_path, conv_duration, sys_stdout, progress, align_progress,
              traceback, exc, exit_status, writes, last_local, env_ok, result,
              segments, detected_lang, language_code, align_outcome, fatal,
              interrupted, existing, export_calls, documents, feed>>

\* Phase 2: whisperx.load_audio raises
LoadAudioRaises ==
    /\ pc = "load_audio"
    /\ phases' = Append(phases, "audio_load")
    /\ terminal' = print_progress_bar("Audio laden", PhaseStart("audio_load"), terminal)
    /\ \E kind \in {"Exception", "KeyboardInterrupt"} :
          /\ exc' = kind
          /\ fatal' = IF kind = "Exception" THEN "audio_load" ELSE fatal
          /\ interrupted' = IF kind = "KeyboardInterrupt" THEN "audio_load" ELSE interrupted
    /\ pc' = "except"
    /\ UNCHANGED <<file_stem, duration, file_size, ffmpeg_calls, align_language,
              file_path, duration_str, estimate, temp_dir, rmtree_calls,
              audio_path, conv_duration, sys_stdout, progress, align_progress,
              traceback, exit_status, writes, last_local, env_ok, result, segments,
              detected_lang, language_code, align_outcome, existing, export_calls,
              documents, feed>>

\* Phase 3: sys.stdout is redirected to a ProgressCapture and model.transcribe is called
TranscribeStart ==
    /\ pc = "transcribe"
    /\ phases' = Append(phases, "inference")
    /\ progress' = ProgressCapture("Transcriptie", PhaseRange("inference")[1],
                                   PhaseRange("inference")[2])
    /\ sys_stdout' = "progress"
    /\ last_local' = Rat(0, 1)
    /\ pc' = "transcribing"
    /\ UNCHANGED <<file_stem, duration, file_size, ffmpeg_calls, align_language,
              file_path, duration_str, estimate, temp_dir, rmtree_calls,
              audio_path, conv_duration, align_progress, terminal, traceback, exc,
              exit_status, writes, env_ok, result, segments, detected_lang,
              language_code, align_outcome, fatal, interrupted, existing,
              export_calls, documents, feed>>

\* model.transcribe writes a chunk to sys.stdout
TranscribeWrite ==
    /\ pc = "transcribing"
    /\ writes < MaxWrites
    /\ \E chars \in ChunkSamples :
          /\ terminal' = StreamWrite(sys_stdout, Chunk(chars), terminal)
          /\ env_ok' = (env_ok /\ ReportsInOrder(last_local, chars))
          /\ last_local' = NextLocal(last_local, chars)
    /\ writes' = writes + 1
    /\ UNCHANGED <<file_stem, duration, file_size, ffmpeg_calls, align_language,
              pc, file_path, duration_str, estimate, temp_dir, rmtree_calls,
              audio_path, conv_duration, sys_stdout, progress, align_progress,
              traceback, exc, exit_status, phases, result, segments, detected_lang,
              language_code, align_outcome, fatal, interrupted, existing,
              export_calls, documents, feed>>

\* model.transcribe returns: finally restores sys.stdout, the bar is finished
\* and the result is read
TranscribeEnd ==
    /\ pc = "transcribing"
    /\ \E r \in ResultSamples :
          /\ result' = r
          /\ detected_lang' = DetectedLanguage(r, language_code)
    /\ sys_stdout' = progress.original_stdout
    /\ terminal' = print_to(progress.original_stdout, Msg("taal"),
                            PCFinish(progress, terminal))
    /\ last_local' = Rat(0, 1)
    /\ pc' = "align_start"
    /\ UNCHANGED <<file_stem, duration, file_size, ffmpeg_calls, align_language,
              file_path, duration_str, estimate, temp_dir, rmtree_calls,
              audio_path, conv_duration, progress, align_progress, traceback, exc,
              exit_status, phases, writes, env_ok, segments,
              language_code, align_outcome, fatal, interrupted, existing,
              export_calls, documents, feed>>

\* model.transcribe raises: finally restores sys.stdout and the exception goes on
TranscribeRaises ==
    /\ pc = "transcribing"
    /\ sys_stdout' = progress.original_stdout
    /\ \E kind \in {"Exception", "KeyboardInterrupt"} :
          /\ exc' = kind
          /\ fatal' = IF kind = "Exception" THEN "inference" ELSE fatal
          /\ interrupted' = IF kind = "KeyboardInterrupt" THEN "inference" ELSE interrupted
    /\ pc' = "except"
    /\ UNCHANGED <<file_stem, duration, file_size, ffmpeg_calls, align_language,
              file_path, duration_str, estimate, temp_dir, rmtree_calls,
              audio_path, conv_duration, progress, align_progress, terminal,
              traceback, exit_status, phases, writes, last_local, env_ok, result,
              segments, detected_lang, language_code, align_outcome, existing,
              export_calls, documents, feed>>

\* a run_transcription that returns the raw segments without the alignment phase
AlignStartSkipped ==
    /\ pc = "align_start"
    /\ segments' = result.segments
    /\ pc' = "export"
    /\ UNCHANGED <<file_stem, duration, file_size, ffmpeg_calls, align_language,
              file_path, duration_str, estimate, temp_dir, rmtree_calls,
              audio_path, conv_duration, sys_stdout, progress, align_progress,
              terminal, traceback, exc, exit_status, phases, writes, last_local,
              env_ok, result, detected_lang, language_code, align_outcome, fatal,
              interrupted, existing, export_calls, documents, feed>>

\* Phase 4: sys.stdout is redirected to a second ProgressCapture and
\* whisperx.load_align_model is called
AlignStart ==
    /\ pc = "align_start"
    /\ phases' = Append(phases, "alignment")
    /\ align_progress' = ProgressCapture("Uitlijning", PhaseRange("alignment")[1],
                                         PhaseRange("alignment")[2])
    /\ sys_stdout' = "align_progress"
    /\ align_language' = detected_lang
    /\ last_local' = Rat(0, 1)
    /\ pc' = "load_align"
    /\ UNCHANGED <<file_stem, duration, file_size, ffmpeg_calls,
              file_path, duration_str, estimate, temp_dir, rmtree_calls,
              audio_path, conv_duration, progress, terminal, traceback, exc,
              exit_status, writes, env_ok, result, segments, detected_lang,
              language_code, align_outcome, fatal, interrupted, existing,
              export_calls, documents, feed>>

\* whisperx.load_align_model returns and whisperx.align is called
LoadAlignModel ==
    /\ pc = "load_align"
    /\ pc' = "aligning"
    /\ UNCHANGED <<file_stem, duration, file_size, ffmpeg_calls, align_language,
              file_path, duration_str, estimate, temp_dir, rmtree_calls,
              audio_path, conv_duration, sys_stdout, progress, align_progress,
              terminal, traceback, exc, exit_status, phases, writes, last_local,
              env_ok, result, segments, detected_lang, language_code,
              align_outcome, fatal, interrupted, existing, export_calls, documents,
              feed>>

\* whisperx.align writes a chunk to sys.stdout
AlignWrite ==
    /\ pc = "aligning"
    /\ writes < MaxWrites
    /\ \E chars \in ChunkSamples :
          /\ terminal' = StreamWrite(sys_stdout, Chunk(chars), terminal)
          /\ env_ok' = (env_ok /\ ReportsInOrder(last_local, chars))
          /\ last_local' = NextLocal(last_local, chars)
    /\ writes' = writes + 1
    /\ UNCHANGED <<file_stem, duration, file_size, ffmpeg_calls, align_language,
              pc, file_path, duration_str, estimate, temp_dir, rmtree_calls,
              audio_path, conv_duration, sys_stdout, progress, align_progress,
              traceback, exc, exit_status, phases, result, segments, detected_lang,
              language_code, align_outcome, fatal, interrupted, existing,
              export_calls, documents, feed>>

\* a fallback that loses the segments of the inference phase
AlignFallbackEmpty(segs) == <<>>

\* what run_transcription returns when alignment failed: aligned = {"segments": segments}
AlignFallback(segs) == segs

\* whisperx.align returns: the else branch restores sys.stdout, the bar is
\* finished and run_transcription returns the aligned segments
AlignEnd ==
    /\ pc = "aligning"
    /\ align_outcome' = "ok"
    /\ sys_stdout' = align_progress.original_stdout
    /\ terminal' = PCFinish(align_progress, terminal)
    /\ segments' = Aligned(result.segments)
    /\ last_local' = Rat(0, 1)
    /\ pc' = "export"
    /\ UNCHANGED <<file_stem, duration, file_size, ffmpeg_calls, align_language,
              file_path, duration_str, estimate, temp_dir, rmtree_calls,
              audio_path, conv_duration, progress, align_progress, traceback, exc,
              exit_status, phases, writes, env_ok, result,
              detected_lang, language_code, fatal, interrupted, existing,
              export_calls, documents, feed>>

\* an except branch that prints the warning before it restores sys.stdout
AlignFailsWarnsFirst ==
    /\ pc \in {"load_align", "aligning"}
    /\ align_outcome' = "failed"
    /\ sys_stdout' = align_progress.original_stdout
    /\ terminal' = PCFinish(align_progress,
                     print_to(sys_stdout, Msg("warning"), terminal))
    /\ segments' = AlignFallback(result.segments)
    /\ last_local' = Rat(0, 1)
    /\ pc' = "export"
    /\ UNCHANGED <<file_stem, duration, file_size, ffmpeg_calls, align_language,
              file_path, duration_str, estimate, temp_dir, rmtree_calls,
              audio_path, conv_duration, progress, align_progress, traceback, exc,
              exit_status, phases, writes, env_ok, result,
              detected_lang, language_code, fatal, interrupted, existing,
              export_calls, documents, feed>>

\* whisperx.load_align_model or whisperx.align raises an Exception: the except
\* branch restores sys.stdout, prints the warning and falls back
AlignFails ==
    /\ pc \in {"load_align", "aligning"}
    /\ align_outcome' = "failed"
    /\ sys_stdout' = align_progress.original_stdout
    /\ terminal' = PCFinish(align_progress,
                     print_to(align_progress.original_stdout, Msg("warning"), terminal))
    /\ segments' = AlignFallback(result.segments)
    /\ last_local' = Rat(0, 1)
    /\ pc' = "export"
    /\ UNCHANGED <<file_stem, duration, file_size, ffmpeg_calls, align_language,
              file_path, duration_str, estimate, temp_dir, rmtree_calls,
              audio_path, conv_duration, progress, align_progress, traceback, exc,
              exit_status, phases, writes, env_ok, result,
              detected_lang, language_code, fatal, interrupted, existing,
              export_calls, documents, feed>>

\* a keyboard interrupt during whisperx.load_align_model or whisperx.align:
\* neither the except Exception branch nor the else branch runs
AlignInterrupted ==
    /\ pc \in {"load_align", "aligning"}
    /\ exc' = "KeyboardInterrupt"
    /\ interrupted' = "alignment"
    /\ pc' = "except"
    /\ UNCHANGED <<file_stem, duration, file_size, ffmpeg_calls, align_language,
              file_path, duration_str, estimate, temp_dir, rmtree_calls,
              audio_path, conv_duration, sys_stdout, progress, align_progress,
              terminal, traceback, exit_status, phases, writes, last_local, env_ok,
              result, segments, detected_lang, language_code, align_outcome, fatal,
              existing, export_calls, documents, feed>>

----------------------------------------------------------------------------
(* main(): export, the error boundary and the cleanup *)

\* a collision check that tries one suffix instead of looping
FirstFreeOneRetry(taken, i) == IF i \in taken THEN i + 1 ELSE i

\* the collision loop: the first index from i on that is not taken
RECURSIVE FirstFree(_, _)
FirstFree(taken, i) == IF i \in taken THEN FirstFree(taken, i + 1) ELSE i

\* Step 5: the output path is chosen, export_to_word writes the document
Export ==
    /\ pc = "export"
    /\ phases' = Append(phases, "export")
    /\ \E taken \in SUBSET (0..MaxExisting) :
          /\ existing' = taken
          /\ export_calls' = Append(export_calls,
                 [segments |-> segments, path |-> FirstFree(taken, 0),
                  duration_str |-> duration_str])
          /\ documents' = {FirstFree(taken, 0)}
    /\ terminal' = print_to(sys_stdout, Msg("done"),
                       finish_progress_bar(
                           print_progress_bar("Word export", PhaseEnd("export"),
                               print_progress_bar("Word export", PhaseStart("export"),
                                   terminal))))
    /\ pc' = "finally"
    /\ UNCHANGED <<file_stem, duration, file_size, ffmpeg_calls, align_language,
              file_path, duration_str, estimate, temp_dir, rmtree_calls,
              audio_path, conv_duration, sys_stdout, progress, align_progress,
              traceback, exc, exit_status, writes, last_local, env_ok, result,
              segments, detected_lang, language_code, align_outcome, fatal,
              interrupted, feed>>

\* export_to_word raises
ExportRaises ==
    /\ pc = "export"
    /\ phases' = Append(phases, "export")
    /\ \E taken \in SUBSET (0..MaxExisting) :
          /\ existing' = taken
          /\ export_calls' = Append(export_calls,
                 [segments |-> segments, path |-> FirstFree(taken, 0),
                  duration_str |-> duration_str])
    /\ terminal' = print_progress_bar("Word export", PhaseStart("export"), terminal)
    /\ \E kind \in {"Exception", "KeyboardInterrupt"} :
          /\ exc' = kind
          /\ fatal' = IF kind = "Exception" THEN "export" ELSE fatal
          /\ interrupted' = IF kind = "KeyboardInterrupt" THEN "export" ELSE interrupted
    /\ pc' = "except"
    /\ UNCHANGED <<file_stem, duration, file_size, ffmpeg_calls, align_language,
              file_path, duration_str, estimate, temp_dir, rmtree_calls,
              audio_path, conv_duration, sys_stdout, progress, align_progress,
              traceback, exit_status, writes, last_local, env_ok, result, segments,
              detected_lang, language_code, align_outcome, documents, feed>>

\* except KeyboardInterrupt: print the cancellation message
HandleInterrupt ==
    /\ pc = "except"
    /\ exc = "KeyboardInterrupt"
    /\ terminal' = print_to(sys_stdout, Msg("cancel"), terminal)
    /\ pc' = "finally"
    /\ UNCHANGED <<file_stem, duration, file_size, ffmpeg_calls, align_language,
              file_path, duration_str, estimate, temp_dir, rmtree_calls,
              audio_path, conv_duration, sys_stdout, progress, align_progress,
              traceback, exc, exit_status, phases, writes, last_local, env_ok,
              result, segments, detected_lang, language_code, align_outcome, fatal,
              interrupted, existing, export_calls, documents, feed>>

\* except Exception: print the error and the traceback
HandleException ==
    /\ pc = "except"
    /\ exc = "Exception"
    /\ terminal' = print_to(sys_stdout, Msg("fout"), terminal)
    /\ traceback' = TRUE
    /\ pc' = "finally"
    /\ UNCHANGED <<file_stem, duration, file_size, ffmpeg_calls, align_language,
              file_path, duration_str, estimate, temp_dir, rmtree_calls,
              audio_path, conv_duration, sys_stdout, progress, align_progress, exc,
              exit_status, phases, writes, last_local, env_ok, result, segments,
              detected_lang, language_code, align_outcome, fatal, interrupted,
              existing, export_calls, documents, feed>>

\* the cleanup at the end of the try block instead of in finally
FinallyOnlyAfterSuccess ==
    /\ pc = "finally"
    /\ temp_dir' = IF exc = "none" THEN "removed" ELSE temp_dir
    /\ rmtree_calls' = IF exc = "none" THEN rmtree_calls + 1 ELSE rmtree_calls
    /\ exit_status' = "returned"
    /\ pc' = "done"
    /\ UNCHANGED <<file_stem, duration, file_size, ffmpeg_calls, align_language,
              file_path, duration_str, estimate, audio_path, conv_duration,
              sys_stdout, progress, align_progress, terminal, traceback, exc,
              phases, writes, last_local, env_ok, result, segments, detected_lang,
              language_code, align_outcome, fatal, interrupted, existing,
              export_calls, documents, feed>>

\* finally: shutil.rmtree(temp_dir); main() returns
Finally ==
    /\ pc = "finally"
    /\ temp_dir' = "removed"
    /\ rmtree_calls' = rmtree_calls + 1
    /\ exit_status' = "returned"
    /\ pc' = "done"
    /\ UNCHANGED <<file_stem, duration, file_size, ffmpeg_calls, align_language,
              file_path, duration_str, estimate, audio_path, conv_duration,
              sys_stdout, progress, align_progress, terminal, traceback, exc,
              phases, writes, last_local, env_ok, result, segments, detected_lang,
              language_code, align_outcome, fatal, interrupted, existing,
              export_calls, documents, feed>>

Next ==
    \/ SelectFile \/ SelectNothing \/ StatFile \/ StatFileFails \/ ProbeSource
    \/ MakeTemp \/ BeginAudio \/ BeginVideo
    \/ ConvertLine \/ ConvertEnd \/ ConvertFails \/ ConvertInterrupted
    \/ Compress \/ CompressFails \/ CompressInterrupted \/ ProbeAudio
    \/ LoadModel \/ LoadModelRaises \/ LoadAudio \/ LoadAudioRaises
    \/ TranscribeStart \/ TranscribeWrite \/ TranscribeEnd \/ TranscribeRaises
    \/ AlignStart \/ LoadAlignModel \/ AlignWrite \/ AlignEnd \/ AlignFails
    \/ AlignInterrupted
    \/ Export \/ ExportRaises \/ HandleInterrupt \/ HandleException \/ Finally

Spec == Init /\ [][Next]_vars

----------------------------------------------------------------------------
(* A ProgressCapture on its own: a wrapped component writes the chunks of   *)
(* feed to sys.stdout while the capture is installed, then the caller       *)
(* restores sys.stdout and calls finish().                                  *)

\* ranges [s, e] with 0 <= s < e <= 100, those of run_transcription among them
RangeSamples == {<<15, 70>>, <<70, 90>>, <<0, 100>>, <<0, 1>>, <<99, 100>>}

Feeds ==
    {<<Chunk(c)>> : c \in SeqsUpTo(Alphabet, MaxLen)}
        \cup {[i \in 1..Len(f) |-> Chunk(f[i])] : f \in SeqsUpTo(ChunkSamples, MaxFeed)}

Idle ==
    /\ file_path = "none" /\ duration_str = <<>> /\ estimate = FALSE
    /\ temp_dir = "none" /\ rmtree_calls = 0 /\ audio_path = NoPath
    /\ conv_duration = None
    /\ align_progress = NoCapture /\ traceback = FALSE /\ exc = "none"
    /\ exit_status = "running" /\ phases = <<>> /\ writes = 0
    /\ last_local = Rat(0, 1) /\ env_ok = TRUE
    /\ result = NoResult /\ segments = <<>>
    /\ detected_lang = "" /\ language_code = "nl" /\ align_outcome = "none"
    /\ fatal = "none" /\ interrupted = "none" /\ existing = {}
    /\ export_calls = <<>> /\ documents = {}
    /\ file_stem = "" /\ file_size = 0 - 1
    /\ ffmpeg_calls = <<>> /\ align_language = ""

InitPC ==
    /\ Idle
    /\ duration = None
    /\ pc = "capture"
    /\ terminal = <<>>
    /\ \E r \in RangeSamples :
          progress = [phase_name |-> "Fase", phase_start |-> r[1], phase_end |-> r[2],
                      original_stdout |-> "terminal"]
    /\ sys_stdout = "progress"
    /\ feed \in Feeds

\* the wrapped component calls sys.stdout.write(chunk)
ComponentWrite ==
    /\ pc = "capture"
    /\ feed # <<>>
    /\ terminal' = StreamWrite(sys_stdout, Head(feed), terminal)
    /\ feed' = Tail(feed)
    /\ UNCHANGED <<file_stem, duration, file_size, ffmpeg_calls, align_language,
              pc, file_path, duration_str, estimate, temp_dir, rmtree_calls, audio_path,
          conv_duration, sys_stdout, progress, align_progress, traceback,
          exc, exit_status, phases, writes, last_local, env_ok, result, segments,
          detected_lang, language_code, align_outcome, fatal, interrupted,
          existing, export_calls, documents>>

\* the wrapped call has returned: sys.stdout is restored and finish() is called
CaptureFinish ==
    /\ pc = "capture"
    /\ feed = <<>>
    /\ sys_stdout' = progress.original_stdout
    /\ terminal' = PCFinish(progress, terminal)
    /\ pc' = "finished"
    /\ UNCHANGED <<file_stem, duration, file_size, ffmpeg_calls, align_language,
              file_path, duration_str, estimate, temp_dir, rmtree_calls, audio_path,
          conv_duration, progress, align_progress, traceback,
          exc, exit_status, phases, writes, last_local, env_ok, result, segments,
          detected_lang, language_code, align_outcome, fatal, interrupted,
          existing, export_calls, documents, feed>>

NextPC == ComponentWrite \/ CaptureFinish

SpecPC == InitPC /\ [][NextPC]_vars

----------------------------------------------------------------------------
(* format_timestamp on its own: main() formats a probed duration of a whole  *)
(* number of seconds                                                         *)

InitTS ==
    /\ Idle
    /\ pc = "format"
    /\ duration \in {Some(n) : n \in 0..MaxSeconds}
    /\ sys_stdout = "terminal" /\ progress = NoCapture
    /\ terminal = <<>> /\ feed = <<>>

\* duration_str = format_timestamp(duration)
FormatDuration ==
    /\ pc = "format"
    /\ duration_str' = format_timestamp(duration.val)
    /\ pc' = "formatted"
    /\ UNCHANGED <<file_stem, duration, file_size, ffmpeg_calls, align_language,
              file_path, estimate, temp_dir, rmtree_calls, audio_path,
              conv_duration, sys_stdout, progress, align_progress, terminal,
              traceback, exc, exit_status, phases, writes, last_local, env_ok,
              result, segments, detected_lang, language_code, align_outcome, fatal,
              interrupted, existing, export_calls, documents, feed>>

NextTS == FormatDuration

SpecTS == InitTS /\ [][NextTS]_vars

----------------------------------------------------------------------------
(* Properties *)

Range(seq) == {seq[i] : i \in 1..Len(seq)}

Last(seq) == seq[Len(seq)]

\* a ProgressCapture is only ever constructed while sys.stdout is the real stream
OriginalIsTerminal ==
    /\ progress.original_stdout \in {"none", "terminal"}
    /\ align_progress.original_stdout \in {"none", "terminal"}

Reported(id) == TextEvent(id) \in Range(terminal)

C2_StdoutRestoredAfterTranscription ==
    pc \in {"export", "except", "finally", "done"} => sys_stdout = "terminal"

\* C3: when alignment fails with an error, run_transcription returns the
\* segments of the inference phase unchanged, with the detected language, and
\* main() goes on to the export step with them.
C3_AlignFailureFallsBack ==
    align_outcome = "failed" =>
        /\ segments = result.segments
        /\ detected_lang = (IF result.has_language THEN result.language ELSE language_code)
        /\ fatal \notin {"alignment"}
        /\ \/ pc = "export" /\ exc = "none"
           \/ /\ "export" \in Range(phases)
              /\ export_calls # <<>>
              /\ export_calls[1].segments = result.segments

C3_Witness ==
    /\ align_outcome = "failed"
    /\ result.segments = ThreeSegments
    /\ export_calls # <<>> /\ export_calls[1].segments = ThreeSegments
    /\ documents # {}

\* C4: a failure of the video conversion, the compression, the model load, the
\* audio load or the inference ends the run: no later phase starts, export_to_word
\* is not called, no document is written, and the error boundary of main()
\* reports the failure; a failed alignment is the only failure that is swallowed.
C4_FatalFailureAborts ==
    /\ fatal \in {"video", "compress", "model_load", "audio_load", "inference"} =>
          /\ Last(phases) = fatal
          /\ export_calls = <<>> /\ documents = {}
          /\ exc = "Exception"
          /\ pc \in {"except", "finally", "done"}
          /\ pc \in {"finally", "done"} => (Reported("fout") /\ traceback)
          /\ exit_status # "uncaught"
    /\ fatal = "export" => (documents = {} /\ exc = "Exception")
    /\ (align_outcome = "failed" /\ "export" \notin Range(phases)) =>
          (exc = "none" /\ pc = "export")

C4_Witness ==
    /\ fatal = "compress" /\ pc = "done"
    /\ Reported("fout") /\ traceback
    /\ export_calls = <<>>

\* C5: a keyboard interrupt in any phase is reported on the real output stream
\* with the cancellation message, and not with the error message and traceback.
C5_InterruptReported ==
    (pc \in {"finally", "done"} /\ interrupted # "none") =>
        (Reported("cancel") /\ ~Reported("fout") /\ ~traceback)

\* C6: every error of a run is reported to the console and main() returns
\* normally: the process never ends with an uncaught exception.
C6_NeverUncaught ==
    /\ exit_status # "uncaught"
    /\ (pc = "done" /\ exc = "Exception") => Reported("fout")

RECURSIVE NonDecreasing(_)
NonDecreasing(pcts) ==
    \/ Len(pcts) <= 1
    \/ /\ RatLeq(pcts[Len(pcts) - 1], pcts[Len(pcts)])
       /\ NonDecreasing(SubSeq(pcts, 1, Len(pcts) - 1))

\* C7: the percentages rendered over a run never decrease, for video and audio
\* sources alike, when every sub-task reports non-decreasing progress in [0,100].
C7_RenderedNonDecreasing == env_ok => NonDecreasing(Rendered(terminal))

\* the ranges of the phases started so far that render a percentage, in order
RECURSIVE DeclaredRanges(_)
DeclaredRanges(ps) ==
    IF ps = <<>> THEN <<>>
    ELSE LET rest == DeclaredRanges(SubSeq(ps, 1, Len(ps) - 1))
         IN IF Last(ps) = "compress" THEN rest ELSE Append(rest, PhaseRange(Last(ps)))

\* C8: the ranges of the phases of a run, in phase order, are contiguous and
\* increasing without overlap, and on a completed run their union is [0,100].
C8_RangesContiguous ==
    LET rs == DeclaredRanges(phases)
    IN /\ \A i \in 1..Len(rs) : rs[i][1] < rs[i][2]
       /\ \A i \in 1..(Len(rs) - 1) : rs[i][2] = rs[i + 1][1]
       /\ documents # {} =>
             /\ \E i \in 1..Len(rs) : rs[i][1] = 0
             /\ \E i \in 1..Len(rs) : rs[i][2] = 100

\* C9: a chunk that carries a local percentage p in [0,100] renders
\* s + p/100*(e-s), which lies in [s,e]; a chunk that carries none renders
\* nothing and raises nothing.
C9_WriteRescales ==
    [][(pc = "capture" /\ feed # <<>>) =>
          LET local == LocalPct(Head(feed).chars)
              s == progress.phase_start
              e == progress.phase_end
          IN IF local = <<>>
             THEN terminal' = terminal /\ exc' = "none" /\ pc' = "capture"
             ELSE (local[1].n <= 100 * local[1].d) =>
                     /\ Len(terminal') = Len(terminal) + 1
                     /\ SubSeq(terminal', 1, Len(terminal)) = terminal
                     /\ Last(terminal').kind = "bar"
                     /\ Last(terminal').label = progress.phase_name
                     /\ Last(terminal').pct =
                           Rat(s * 100 * local[1].d + local[1].n * (e - s), 100 * local[1].d)
                     /\ s * Last(terminal').pct.d <= Last(terminal').pct.n
                     /\ Last(terminal').pct.n <= e * Last(terminal').pct.d
                     /\ exc' = "none"]_vars

C9_Witness ==
    /\ pc = "capture"
    /\ \E i \in 1..Len(terminal) :
          /\ terminal[i].kind = "bar"
          /\ progress.phase_start * terminal[i].pct.d < terminal[i].pct.n
          /\ terminal[i].pct.n < progress.phase_end * terminal[i].pct.d

\* C10: finish() renders exactly phase_end_pct and then a line break, whatever
\* was rendered before (nothing, a value short of the end, several values).
C10_FinishRendersEnd ==
    pc = "finished" =>
        /\ Len(terminal) >= 2
        /\ terminal[Len(terminal)] = NewlineEvent
        /\ terminal[Len(terminal) - 1] =
              BarEvent(progress.phase_name, Bar(Rat(progress.phase_end, 1)),
                       Rat(progress.phase_end, 1))
        /\ Last(Rendered(terminal)) = Rat(progress.phase_end, 1)

C10_Witness ==
    /\ pc = "finished"
    /\ Len(Rendered(terminal)) = 3
    /\ ~RatLeq(Rat(progress.phase_end, 1), Rendered(terminal)[2])

\* C11: the output path chosen for export is not a taken path, and it is the
\* first free one of <stem>.docx, <stem>_1.docx, <stem>_2.docx, ...: with
\* <stem>.docx and <stem>_1.docx taken it is <stem>_2.docx, with no collision
\* it is <stem>.docx.
C11_FirstFreeOutputPath ==
    \A c \in 1..Len(export_calls) :
        /\ export_calls[c].path \notin existing
        /\ \A j \in 0..(export_calls[c].path - 1) : j \in existing
        /\ 0 \notin existing => export_calls[c].path = 0
        /\ existing = {0, 1} => export_calls[c].path = 2

C11_Witness ==
    /\ existing = {0, 1}
    /\ export_calls # <<>> /\ export_calls[1].path = 2
    /\ documents = {2}

\* C12: compress_audio_if_needed runs the re-encoding exactly when the file
\* size exceeds 500 MB, the threshold value itself included, and otherwise
\* returns the path it was given without running the tool.
C12_CompressExactlyAboveThreshold ==
    file_size >= 0 =>
        LET compressed == \E c \in 1..Len(ffmpeg_calls) : ffmpeg_calls[c].tool = "compress"
        IN /\ compressed <=> (file_size > 500 * 1024 * 1024)
           /\ (~compressed /\ pc = "probe_audio") => audio_path # CompressOutput

\* C13: a probe outcome that is missing, non-numeric, zero or negative leaves
\* main() with the placeholder "Onbekend" and no estimate; a formatted duration
\* and an estimate are produced only for a probed duration > 0.
C13_UnknownDurationFallsBack ==
    pc = "mkdtemp" =>
        IF duration.some /\ duration.val > 0
        THEN estimate /\ duration_str # Onbekend
        ELSE ~estimate /\ duration_str = Onbekend

\* C14: the language run_transcription returns is the one the inference result
\* reports when it reports one and the requested language otherwise, and that
\* value is the language the alignment model is loaded for.
C14_LanguageDefaultsToRequested ==
    /\ result # NoResult =>
          detected_lang = (IF result.has_language THEN result.language ELSE language_code)
    /\ "alignment" \in Range(phases) =>
          /\ align_language = detected_lang
          /\ align_language = (IF result.has_language THEN result.language
                               ELSE language_code)
    /\ "alignment" \notin Range(phases) => align_language = ""

C14_Witness ==
    /\ pc = "done" /\ documents # {}
    /\ result # NoResult /\ ~result.has_language
    /\ detected_lang = language_code /\ align_language = language_code

PhaseOrder ==
    <<"video", "compress", "model_load", "audio_load", "inference", "alignment", "export">>

IsPrefix(s, t) == Len(s) <= Len(t) /\ s = SubSeq(t, 1, Len(s))

\* C15: the phases of a run start in the order video conversion (video sources
\* only), compression check, model-load, audio-load, inference, alignment,
\* export, each at most once and each after the one before has ended, and
\* export starts only after the alignment phase has ended, successfully or with
\* the fallback.
C15_PhasesInOrder ==
    /\ IsPrefix(phases, IF file_path = "video" THEN PhaseOrder ELSE Tail(PhaseOrder))
    /\ pc = "ffmpeg" => Last(phases) = "video"
    /\ pc = "transcribing" => Last(phases) = "inference"
    /\ pc \in {"load_align", "aligning"} => Last(phases) = "alignment"
    /\ (pc = "export" \/ "export" \in Range(phases)) =>
          /\ align_outcome \in {"ok", "failed"}
          /\ "alignment" \in Range(phases)

C15_Witness ==
    /\ pc = "done"
    /\ phases = PhaseOrder
    /\ align_outcome = "failed"
    /\ documents # {}

C17_WarningOnRealStream ==
    LET ws == {i \in 1..Len(terminal) : terminal[i] = TextEvent("warning")}
    IN /\ align_outcome = "failed" =>
             /\ sys_stdout = "terminal"
             /\ Cardinality(ws) = 1
             /\ \A i \in ws :
                   /\ i + 3 <= Len(terminal)
                   /\ terminal[i + 1] = NewlineEvent
                   /\ terminal[i + 2] =
                         BarEvent("Uitlijning", [eq |-> 36, cursor |-> TRUE], Rat(90, 1))
                   /\ terminal[i + 3] = NewlineEvent
       /\ align_outcome # "failed" => ws = {}

C17_Witness ==
    /\ align_outcome = "failed"
    /\ pc = "export"
    /\ Reported("warning")
    /\ Last(Rendered(terminal)) = Rat(90, 1)

TwoDigits(v) == <<DigitChar(v \div 10), DigitChar(v % 10)>>

\* C18: for a whole number of seconds n >= 0, format_timestamp(n) is MM:SS
\* (n div 60, n mod 60) when n < 3600 and HH:MM:SS (n div 3600,
\* (n mod 3600) div 60, n mod 60) otherwise, each part padded to two digits:
\* 45 gives 00:45, 125 gives 02:05 and 3725 gives 01:02:05.
C18_TimestampFormat ==
    pc = "formatted" =>
        LET n == duration.val
        IN /\ duration_str =
                 IF n < 3600
                 THEN TwoDigits(n \div 60) \o <<":">> \o TwoDigits(n % 60)
                 ELSE TwoDigits(n \div 3600) \o <<":">> \o TwoDigits((n % 3600) \div 60)
                          \o <<":">> \o TwoDigits(n % 60)
           /\ n = 45 => duration_str = <<"0", "0", ":", "4", "5">>
           /\ n = 125 => duration_str = <<"0", "2", ":", "0", "5">>
           /\ n = 3725 => duration_str = <<"0", "1", ":", "0", "2", ":", "0", "5">>

C18_Witness ==
    /\ pc = "formatted"
    /\ duration = Some(3725)
    /\ duration_str = <<"0", "1", ":", "0", "2", ":", "0", "5">>

\* C19: the file an ffmpeg run writes is never the file it reads and never the
\* user's source file, whatever the source file is called.
C19_OutputsDifferFromInputs ==
    \A c \in 1..Len(ffmpeg_calls) :
        /\ ffmpeg_calls[c].output # ffmpeg_calls[c].input
        /\ ffmpeg_calls[c].output # Path("user", file_stem,
                                          IF file_path = "video" THEN "mp4" ELSE "mp3")

LabelRange(label) ==
    CASE label = "Video conversie" -> <<5, 15>>
      [] label = "Model laden" -> <<0, 10>>
      [] label = "Audio laden" -> <<10, 15>>
      [] label = "Transcriptie" -> <<15, 70>>
      [] label = "Uitlijning" -> <<70, 90>>
      [] label = "Word export" -> <<90, 100>>

\* C20: every percentage rendered during a run lies in [0,100] and in the range
\* of the phase that renders it, whatever the wrapped components write and
\* whatever time markers the conversion tool emits.
C20_RenderedWithinPhaseRange ==
    \A i \in 1..Len(terminal) :
        terminal[i].kind = "bar" =>
            LET p == terminal[i].pct
                r == LabelRange(terminal[i].label)
            IN /\ 0 <= p.n /\ p.n <= 100 * p.d
               /\ r[1] * p.d <= p.n /\ p.n <= r[2] * p.d

====
